---- MODULE Spec2Model ----
(***************************************************************************)
(* A model of doc2graph: pass-1 relationship extraction                    *)
(* (llm.py process_documents), the triple normalizer and the derivation    *)
(* of the pass-2 constraints from the curation table (utils.py), and the   *)
(* document reader (llm.py extract_content).                               *)
(*                                                                         *)
(* Python str values are modelled as sequences of one-character strings,   *)
(* so that splitting, lower-casing and ordering are computed character by  *)
(* character.                                                              *)
(***************************************************************************)
EXTENDS Integers, Sequences, FiniteSets, TLC

VARIABLES
    pc,                    \* position of the modelled run
    relationships,         \* convert_to_lite: its argument (List[Relationship])
    lite_results,          \* convert_to_lite: its return value
    edited_df,             \* st.session_state.edited_df (the curation table): its rows
    df_columns,            \* st.session_state.edited_df: its columns
    allowed_relationships, \* extract_graph: df2json(edited_df)
    allowed_nodes,         \* extract_graph: get_unique_entities(edited_df)
    files,                 \* process_documents: its argument, the batch of files
    file_idx,              \* process_documents: index of the file the loop is at
    all_results,           \* process_documents: all_results
    errors,                \* process_documents: the st.error messages, in order
    response,              \* process_documents: the answer llm.invoke returned
    extracted_relationships, \* st.session_state.extracted_relationships
    file,                  \* extract_content: name of the file handed in
    content,               \* extract_content: what the call produced
    store,                 \* the Neo4j database: its nodes and relationships
    prior_graph,           \* the database as it was when insert_graph was called
    graphs,                \* insert_graph: its argument, one list per file
    clear_existing,        \* insert_graph: its argument clear_existing
    graph_idx,             \* insert_graph: index of the list the loop is at
    store_log,             \* insert_graph: the requests made on graphDBSession
    graphDBSession,        \* insert_graph: graphDBSession
    graph,                 \* st.session_state.graph
    memory,                \* st.session_state.memory
    chain_step,            \* the call chain(...): the step it is at
    user_query,            \* main: user_query, the question submitted
    generated_cypher,      \* the chain's intermediate step: query
    context,               \* the chain's intermediate step: context
    notice,                \* what the query tab last reported to the user
    completed_turns,       \* the answers shown since the conversation began
    shown,                 \* what the query tab displays of the chain's result
    graph_schema,          \* st.session_state.graph.schema
    chain_schema,          \* the schema the chain of the question was made with
    stream_pos,            \* the read positions of the uploaded files' streams
    uploaded_files,        \* main: uploaded_files, what the uploader returns
    reextract,             \* st.session_state.reextract
    relationships_extracted, \* st.session_state.relationships_extracted
    pass1_ran,             \* whether the last run of the script called process_documents
    graph_transformer,     \* extract_graph: graph_transformer, with its constraints
    tab1_notice,           \* what the Extract Graph handler last reported
    observed               \* what another session last read from the database

vars == <<pc, relationships, lite_results, edited_df, df_columns, allowed_relationships,
          allowed_nodes, files, file_idx, all_results, errors, response,
          extracted_relationships, file, content, store, prior_graph, graphs,
          clear_existing, graph_idx, store_log, graphDBSession, graph, memory,
          chain_step, user_query, generated_cypher, context, notice, completed_turns,
          shown, graph_schema, chain_schema, stream_pos, uploaded_files, reextract,
          relationships_extracted, pass1_ran, graph_transformer, tab1_notice, observed>>

normVars   == <<relationships, lite_results>>
tableVars  == <<edited_df, df_columns, allowed_relationships, allowed_nodes>>
batchVars  == <<files, file_idx, all_results, errors, response, extracted_relationships>>
readerVars == <<file, content>>
loadVars   == <<store, prior_graph, graphs, clear_existing, graph_idx, store_log,
                graphDBSession>>
queryVars  == <<graph, memory, chain_step, user_query, generated_cypher, context,
                notice, completed_turns, shown, graph_schema, chain_schema>>
sessionVars == <<loadVars, queryVars>>
rerunVars  == <<uploaded_files, reextract, relationships_extracted, pass1_ran>>
extractVars == <<graph_transformer, tab1_notice>>
runVars    == <<rerunVars, extractVars, stream_pos, observed>>

(***************************************************************************)
(* Bounds of the model.                                                    *)
(***************************************************************************)
MaxTriples == 3     \* longest triple sequence handed to the normalizer
MaxRows == 2        \* most rows the curation table is grown to
MaxFiles == 2       \* most files in one uploaded batch
MaxResp == 2        \* most items in one language-model response
MaxSegs == 3        \* most dot-separated segments in a file name

\* every sequence over S of length lo..hi
SeqsBetween(S, lo, hi) == UNION {[1..n -> S] : n \in lo..hi}

(***************************************************************************)
(* Python strings.                                                         *)
(***************************************************************************)
\* ord(c) for the characters the model uses
Ord(c) ==
    CASE c = "." -> 46
      [] c = "A" -> 65 [] c = "B" -> 66 [] c = "D" -> 68 [] c = "F" -> 70
      [] c = "N" -> 78 [] c = "P" -> 80 [] c = "T" -> 84 [] c = "X" -> 88
      [] c = "a" -> 97 [] c = "c" -> 99 [] c = "d" -> 100 [] c = "e" -> 101
      [] c = "f" -> 102 [] c = "n" -> 110 [] c = "o" -> 111 [] c = "p" -> 112
      [] c = "r" -> 114 [] c = "s" -> 115 [] c = "t" -> 116 [] c = "v" -> 118
      [] c = "x" -> 120 [] c = "y" -> 121

\* str.__lt__: lexicographic by code point, a proper prefix is smaller
RECURSIVE StrLess(_, _)
StrLess(a, b) ==
    IF b = <<>> THEN FALSE
    ELSE IF a = <<>> THEN TRUE
    ELSE IF Ord(Head(a)) # Ord(Head(b)) THEN Ord(Head(a)) < Ord(Head(b))
    ELSE StrLess(Tail(a), Tail(b))

\* the labels and texts the language model is taken to use
StrA == <<"A">>
StrB == <<"B">>
StrR == <<"r">>
StrS == <<"s">>
StrX == <<"x">>
StrY == <<"y">>
Types == {StrA, StrB}
Relations == {StrR, StrS}
Texts == {StrX, StrY}

(***************************************************************************)
(* schema.py                                                               *)
(***************************************************************************)
\* class Relationship: five str fields
Relationship ==
    [head : Texts, head_type : Types, relation : Relations,
     tail : {StrX}, tail_type : Types]

\* class RelationshipLite
RelationshipLite(head_type, relation, tail_type, check) ==
    [head_type |-> head_type, relation |-> relation,
     tail_type |-> tail_type, check |-> check]

(***************************************************************************)
(* utils.py: the triple normalizer                                         *)
(***************************************************************************)
\* Key with a fault: the relation is left out of the key
KeyNoRelation(rel) == <<rel.head_type, rel.tail_type>>

\* key = (r.head_type, r.relation, r.tail_type)
Key(rel) == <<rel.head_type, rel.relation, rel.tail_type>>

\* convert_to_lite_loop with a fault: seen is never consulted
RECURSIVE convert_to_lite_nodedup(_, _, _)
convert_to_lite_nodedup(rels, seen, unique_results) ==
    IF rels = <<>> THEN unique_results
    ELSE LET rel == Head(rels) IN
         convert_to_lite_nodedup(Tail(rels), seen \cup {Key(rel)},
             Append(unique_results,
                    RelationshipLite(rel.head_type, rel.relation, rel.tail_type, FALSE)))

\* the for loop of convert_to_lite, over the relationships still to visit
RECURSIVE convert_to_lite_loop(_, _, _)
convert_to_lite_loop(rels, seen, unique_results) ==
    IF rels = <<>> THEN unique_results
    ELSE LET rel == Head(rels)
             key == Key(rel)
         IN  IF key \notin seen
             THEN convert_to_lite_loop(Tail(rels), seen \cup {key},
                      Append(unique_results,
                             RelationshipLite(rel.head_type, rel.relation,
                                              rel.tail_type, FALSE)))
             ELSE convert_to_lite_loop(Tail(rels), seen, unique_results)

convert_to_lite(rels) == convert_to_lite_loop(rels, {}, <<>>)

(***************************************************************************)
(* utils.py: the curation table and the pass-2 constraints                 *)
(***************************************************************************)
\* a cell of the DataFrame: a str, or None (a cell the editor left unset)
StrCell(v) == [t |-> "str", v |-> v]
NoneCell == [t |-> "NoneType", v |-> <<>>]

\* str(cell), as df2json applies it to every cell
PyStr(cell) == IF cell.t = "str" THEN cell.v ELSE <<"N", "o", "n", "e">>

\* get_dataframe with a fault: the From and To columns are swapped
get_dataframe_swapped(results) ==
    [k \in 1..Len(results) |->
        [From |-> StrCell(results[k].tail_type),
         Relationship |-> StrCell(results[k].relation),
         To |-> StrCell(results[k].head_type)]]

\* pd.DataFrame of one {From, Relationship, To} dict per item; check is not copied
get_dataframe(results) ==
    [k \in 1..Len(results) |->
        [From |-> StrCell(results[k].head_type),
         Relationship |-> StrCell(results[k].relation),
         To |-> StrCell(results[k].tail_type)]]

\* the columns of pd.DataFrame(data): the keys of the dicts; none for data = []
DataFrameColumns(results) ==
    IF Len(results) = 0 THEN {} ELSE {"From", "Relationship", "To"}

\* df.empty: no rows (a DataFrame without columns has no row with a cell)
DfEmpty(df) == Len(df) = 0

df2json(df) ==
    IF DfEmpty(df) THEN <<>>
    ELSE [k \in 1..Len(df) |->
            <<PyStr(df[k].From), PyStr(df[k].Relationship), PyStr(df[k].To)>>]

\* pd.concat([df['From'], df['To']]): the From column, then the To column
ConcatFromTo(df) ==
    [k \in 1..(2 * Len(df)) |->
        IF k <= Len(df) THEN df[k].From ELSE df[k - Len(df)].To]

\* Series.unique(): the values in order of first appearance
RECURSIVE PdUnique(_, _)
PdUnique(values, acc) ==
    IF values = <<>> THEN acc
    ELSE IF \E k \in 1..Len(acc) : acc[k] = Head(values)
         THEN PdUnique(Tail(values), acc)
         ELSE PdUnique(Tail(values), Append(acc, Head(values)))

\* cell < cell as sorted() evaluates it; only str against str is defined
CellLess(a, b) == StrLess(a.v, b.v)

\* sorted() compares elements pairwise: any comparison between a str and None
\* raises TypeError; a list of fewer than two elements is compared with nothing
SortedRaises(values) ==
    /\ Len(values) >= 2
    /\ \E k \in 1..Len(values) : values[k].t # "str"

\* insert v into the sorted list sorted_, after every element not greater than v
RECURSIVE InsertSorted(_, _)
InsertSorted(v, sorted_) ==
    IF sorted_ = <<>> THEN <<v>>
    ELSE IF CellLess(v, Head(sorted_)) THEN <<v>> \o sorted_
    ELSE <<Head(sorted_)>> \o InsertSorted(v, Tail(sorted_))

\* sorted(values), for values that can be compared
RECURSIVE PySorted(_)
PySorted(values) ==
    IF values = <<>> THEN <<>>
    ELSE InsertSorted(values[Len(values)], PySorted(SubSeq(values, 1, Len(values) - 1)))

\* what a call produced: a returned value, or the exception it raised
Returned(v) == [raised |-> "", value |-> v]
Raised(e) == [raised |-> e, value |-> <<>>]

\* get_unique_entities with a fault: no df.empty guard, so df['From'] on a
\* DataFrame without columns raises KeyError
get_unique_entities_noguard(df) ==
    IF DfEmpty(df) THEN Raised("KeyError")
    ELSE LET unique_entities == PdUnique(ConcatFromTo(df), <<>>) IN
         IF SortedRaises(unique_entities) THEN Raised("TypeError")
         ELSE Returned(PySorted(unique_entities))

get_unique_entities(df) ==
    IF DfEmpty(df) THEN Returned(<<>>)
    ELSE LET unique_entities == PdUnique(ConcatFromTo(df), <<>>) IN
         IF SortedRaises(unique_entities) THEN Raised("TypeError")
         ELSE Returned(PySorted(unique_entities))

(***************************************************************************)
(* llm.py: the document reader                                             *)
(***************************************************************************)
\* str.lower() on one character
LowerChar(c) ==
    CASE c = "T" -> "t" [] c = "X" -> "x" [] c = "P" -> "p" [] c = "D" -> "d"
      [] c = "F" -> "f" [] c = "O" -> "o" [] c = "C" -> "c"
      [] OTHER -> c

\* Lower with a fault: the extension is compared as written
LowerIdentity(str) == str

Lower(str) == [k \in 1..Len(str) |-> LowerChar(str[k])]

\* str.split(sep): the pieces between the occurrences of sep, scanning from
\* the left; cur is the piece being read, parts the pieces already closed
RECURSIVE SplitLoop(_, _, _, _)
SplitLoop(str, sep, parts, cur) ==
    IF str = <<>> THEN Append(parts, cur)
    ELSE IF Head(str) = sep THEN SplitLoop(Tail(str), sep, Append(parts, cur), <<>>)
    ELSE SplitLoop(Tail(str), sep, parts, Append(cur, Head(str)))

Split(str, sep) == SplitLoop(str, sep, <<>>, <<>>)

\* file.name.split('.')[-1].lower()
FileExtension(name) ==
    LET parts == Split(name, ".") IN Lower(parts[Len(parts)])

ExtPdf == <<"p", "d", "f">>
ExtDocx == <<"d", "o", "c", "x">>
ExtTxt == <<"t", "x", "t">>

\* the text a reader decodes from a file: which reader ran, on which file
Text(reader, name) == [by |-> reader, of |-> name]

\* a call on a file whose stream has not been read: what it returns
extract_content(name) ==
    LET file_extension == FileExtension(name) IN
    IF file_extension = ExtPdf THEN Returned(Text("read_pdf", name))
    ELSE IF file_extension = ExtDocx THEN Returned(Text("read_docx", name))
    ELSE IF file_extension = ExtTxt THEN Returned(Text("read_txt", name))
    ELSE Raised("ValueError")

\* a call on a file whose stream is at position pos ("start" or "end"): what
\* it returns and where it leaves the stream.
\*   read_pdf:  PyPDF2.PdfReader(file) finds its way from the end of the
\*              stream, wherever the position is
\*   read_docx: file.read() takes what is left after the position and leaves
\*              the stream at its end; docx.Document raises on no bytes
\*   read_txt:  file.getvalue() is the whole buffer, the position stays
Reading(result, pos) == [result |-> result, pos |-> pos]

extract_content_at(name, pos) ==
    LET file_extension == FileExtension(name) IN
    IF file_extension = ExtPdf THEN Reading(Returned(Text("read_pdf", name)), "end")
    ELSE IF file_extension = ExtDocx
         THEN (IF pos = "start" THEN Reading(Returned(Text("read_docx", name)), "end")
               ELSE Reading(Raised("BadZipFile"), "end"))
    ELSE IF file_extension = ExtTxt THEN Reading(Returned(Text("read_txt", name)), pos)
    ELSE Reading(Raised("ValueError"), pos)

(***************************************************************************)
(* llm.py: process_documents, one iteration of its loop per step           *)
(***************************************************************************)
\* the relationships a response of pass 1 is taken to name
BatchRelationships ==
    {rel \in Relationship :
        rel.head = StrX /\ rel.relation = StrR /\ rel.tail_type = StrA}

\* an element of the JSON array: a dict, which validates as a Relationship
\* (conforms) or does not (a field is missing or is no string)
ResponseItems ==
    [conforms : {TRUE}, rel : BatchRelationships]
        \cup [conforms : {FALSE}, rel : {CHOOSE rel \in BatchRelationships : TRUE}]

NoItems == <<>>

\* what llm.invoke does for one prompt.
\*   kind:  "throws"   the call raises
\*          "blank"    the text is empty once stripped
\*          "invalid"  the text is no JSON document
\*          "scalar"   a JSON document that is neither a list nor a dict
\*          "other_object"  a JSON object without the key relationships
\*          "array"    a JSON array of items
\*          "relationships_object"  {"relationships": <array of items>}
\*   open:  what the text starts with: "" (neither), "json_fence" (three
\*          backticks and the word json), "bare_fence" (three backticks alone)
\*   close: what the text ends with: "" or "fence" (three backticks)
Responses ==
    [kind : {"throws", "blank", "invalid", "scalar", "other_object"},
     open : {""}, close : {""}, items : {NoItems}]
        \cup [kind : {"array", "relationships_object"},
              open : {"", "json_fence", "bare_fence"}, close : {"", "fence"},
              items : SeqsBetween(ResponseItems, 0, MaxResp)]

\* JsonLoads with a fault: the fences are not stripped before json.loads
JsonLoadsUnstripped(response_text) ==
    /\ response_text.kind \notin {"invalid"}
    /\ response_text.open = ""
    /\ response_text.close = ""

\* json.loads succeeds on the text left after the two fence strips: the strips
\* remove a leading json fence and a trailing fence, a leading bare fence stays
JsonLoads(response_text) ==
    /\ response_text.kind \notin {"invalid"}
    /\ response_text.open # "bare_fence"

\* RelationshipList(...) validates: every item is a Relationship
Validates(items) == \A k \in 1..Len(items) : items[k].conforms

RelationshipsOf(items) == [k \in 1..Len(items) |-> items[k].rel]

\* one st.error call
StError(f, what) == [file |-> f, what |-> what]

\* what the body of the loop does for the file named name, given the
\* response of the model: the exception that leaves process_documents (if
\* any), the st.error calls, and what all_results is extended with
Iteration(raised, errs, lite) == [raised |-> raised, errs |-> errs, lite |-> lite]

\* ProcessFile with a fault: a blank answer is skipped without st.error
ProcessFile_silent(name, answer, so_far) ==
    IF extract_content(name).raised # "" THEN Iteration("ValueError", <<>>, <<>>)
    ELSE IF answer.kind = "throws" THEN Iteration("LLMError", <<>>, <<>>)
    ELSE IF answer.kind = "blank" THEN Iteration("", <<>>, <<>>)
    ELSE IF ~JsonLoads(answer)
         THEN Iteration("", <<StError(name, "parse"), StError(name, "json_error"),
                              StError(name, "response_text")>>, <<>>)
    ELSE IF answer.kind = "scalar"
         THEN Iteration("", <<StError(name, "unexpected")>>, <<>>)
    ELSE IF answer.kind = "other_object" \/ ~Validates(answer.items)
         THEN Iteration("", <<StError(name, "structure")>>, <<>>)
    ELSE Iteration("", <<>>, convert_to_lite(RelationshipsOf(answer.items)))

ProcessFile(name, answer, so_far) ==
    \* content = extract_content(file): outside the try
    IF extract_content(name).raised # "" THEN Iteration("ValueError", <<>>, <<>>)
    \* response = llm.invoke(prompt): outside the try
    ELSE IF answer.kind = "throws" THEN Iteration("LLMError", <<>>, <<>>)
    \* if not response_text: st.error; continue
    ELSE IF answer.kind = "blank" THEN Iteration("", <<StError(name, "empty")>>, <<>>)
    \* except json.JSONDecodeError: three st.error calls; continue
    ELSE IF ~JsonLoads(answer)
         THEN Iteration("", <<StError(name, "parse"), StError(name, "json_error"),
                              StError(name, "response_text")>>, <<>>)
    \* unpacking raw_data that is no mapping: TypeError, except Exception
    ELSE IF answer.kind = "scalar"
         THEN Iteration("", <<StError(name, "unexpected")>>, <<>>)
    \* pydantic ValidationError is a ValueError: except ValueError
    ELSE IF answer.kind = "other_object" \/ ~Validates(answer.items)
         THEN Iteration("", <<StError(name, "structure")>>, <<>>)
    \* all_results.extend(convert_to_lite(validated_data.relationships))
    ELSE Iteration("", <<>>, convert_to_lite(RelationshipsOf(answer.items)))

(***************************************************************************)
(* The inputs of the runs.                                                 *)
(***************************************************************************)
\* the dot-separated pieces file names are made of
Segments ==
    {ExtTxt, <<"T", "X", "T">>, ExtPdf, <<"P", "d", "f">>, ExtDocx,
     <<"c", "s", "v">>, <<"a">>, <<>>}

\* '.'.join(segs)
RECURSIVE JoinDots(_)
JoinDots(segs) ==
    IF Len(segs) = 1 THEN segs[1]
    ELSE segs[1] \o <<".">> \o JoinDots(Tail(segs))

\* the file names the reader is run on (a file has a name)
FileNames == {JoinDots(segs) : segs \in SeqsBetween(Segments, 1, MaxSegs)} \ {<<>>}

\* the file names a batch of pass 1 is made of
BatchNames ==
    {JoinDots(<<(<<"a">>), ExtTxt>>), JoinDots(<<(<<"a">>), <<"P", "d", "f">>>>),
     JoinDots(<<(<<"a">>), <<"c", "s", "v">>>>)}

\* what the user can put in a cell of the data editor
FromToInputs == {StrCell(StrA), StrCell(StrB), StrCell(<<>>), NoneCell}
RelationshipInputs == {StrCell(StrR), NoneCell}
CellInputs(col) == IF col = "Relationship" THEN RelationshipInputs ELSE FromToInputs
Columns == {"From", "Relationship", "To"}

Unread == [raised |-> "", value |-> Text("", <<>>)]
\* no answer of the language model is at hand
NoResponse == [kind |-> "none", open |-> "", close |-> "", items |-> NoItems]
NotDerived == Returned(<<>>)

NormIdle   == /\ relationships = <<>> /\ lite_results = <<>>
TableIdle  == /\ edited_df = <<>> /\ df_columns = {} /\ allowed_relationships = <<>>
              /\ allowed_nodes = NotDerived
BatchIdle  == /\ files = <<>> /\ file_idx = 0 /\ all_results = <<>>
              /\ errors = <<>> /\ response = NoResponse
              /\ extracted_relationships = <<>>
ReaderIdle == /\ file = <<>> /\ content = Unread /\ stream_pos = <<>>

\* a graph without nodes and relationships
EmptyGraph == [nodes |-> {}, rels |-> {}]
\* ConversationBufferMemory as constructed: no message
NoMemory == [exists |-> FALSE, turns |-> <<>>]
NoQuestion == ""
\* the chain has not queried the database
NoContext == [fetched |-> FALSE, rows |-> {}]
\* nothing of a chain's result is displayed
NoDisplay == [queries |-> <<>>, contexts |-> <<>>, answer |-> ""]
\* the schema of a database without nodes
NoSchema == [labels |-> {}, types |-> {}]
\* no graph transformer has been made
NoTransformer == [made |-> FALSE, allowed_nodes |-> <<>>, allowed_relationships |-> <<>>]
\* no other session has read the database
NotObserved == [during |-> "", wiped |-> FALSE, graph |-> EmptyGraph]

LoadIdle   == /\ store = EmptyGraph /\ prior_graph = EmptyGraph /\ graphs = <<>>
              /\ clear_existing = TRUE /\ graph_idx = 0 /\ store_log = <<>>
              /\ graphDBSession = "None"
QueryIdle  == /\ graph = "absent" /\ memory = NoMemory /\ chain_step = "Idle"
              /\ user_query = NoQuestion /\ generated_cypher = "" /\ context = NoContext
              /\ notice = "" /\ completed_turns = <<>> /\ shown = NoDisplay
              /\ graph_schema = NoSchema /\ chain_schema = NoSchema
RunIdle    == /\ uploaded_files = <<>> /\ reextract = FALSE
              /\ relationships_extracted = FALSE /\ pass1_ran = FALSE
              /\ graph_transformer = NoTransformer /\ tab1_notice = ""
              /\ observed = NotObserved
SessionIdle == LoadIdle /\ QueryIdle /\ RunIdle

(***************************************************************************)
(* extract_graph, lines 137-138: the pass-2 constraints are derived from   *)
(* the table the data editor returned.                                     *)
(***************************************************************************)
ExtractGraph ==
    /\ pc = "table"
    /\ allowed_relationships' = df2json(edited_df)
    /\ allowed_nodes' = get_unique_entities(edited_df)
    /\ pc' = "derived"
    /\ UNCHANGED <<runVars, sessionVars, edited_df, df_columns, normVars, batchVars, readerVars>>

(***************************************************************************)
(* SpecNormalize: the normalizer on every triple sequence, then the table  *)
(* built from its output, unedited, and the constraints derived from it.   *)
(***************************************************************************)
InitNormalize ==
    /\ SessionIdle
    /\ pc = "input"
    /\ relationships \in SeqsBetween(Relationship, 0, MaxTriples)
    /\ lite_results = <<>>
    /\ TableIdle /\ BatchIdle /\ ReaderIdle

Normalize ==
    /\ pc = "input"
    /\ lite_results' = convert_to_lite(relationships)
    /\ pc' = "normalized"
    /\ UNCHANGED <<runVars, sessionVars, relationships, tableVars, batchVars, readerVars>>

\* display_extraction_relationships, the editor returning the table as built
DisplayNormalized ==
    /\ pc = "normalized"
    /\ edited_df' = get_dataframe(lite_results)
    /\ df_columns' = DataFrameColumns(lite_results)
    /\ pc' = "table"
    /\ UNCHANGED <<runVars, sessionVars, allowed_relationships, allowed_nodes, normVars, batchVars, readerVars>>

NextNormalize == Normalize \/ DisplayNormalized \/ ExtractGraph

SpecNormalize == InitNormalize /\ [][NextNormalize]_vars

(***************************************************************************)
(* SpecCuration: the table built from a normalizer output is edited in the *)
(* data editor (num_rows="dynamic": rows are added and deleted, any cell   *)
(* is rewritten), then the constraints are derived.                        *)
(***************************************************************************)
InitCuration ==
    /\ SessionIdle
    /\ pc = "table"
    /\ \E rels \in SeqsBetween(Relationship, 0, MaxRows) :
          /\ edited_df = get_dataframe(convert_to_lite(rels))
          /\ df_columns = DataFrameColumns(convert_to_lite(rels))
    /\ allowed_relationships = <<>>
    /\ allowed_nodes = NotDerived
    /\ NormIdle /\ BatchIdle /\ ReaderIdle

\* a row added in the editor has no cell set (a table without columns has
\* no cell to add)
AddRow ==
    /\ pc = "table"
    /\ df_columns = Columns
    /\ Len(edited_df) < MaxRows
    /\ edited_df' = Append(edited_df,
           [From |-> NoneCell, Relationship |-> NoneCell, To |-> NoneCell])
    /\ UNCHANGED <<runVars, sessionVars, pc, df_columns, allowed_relationships, allowed_nodes, normVars, batchVars, readerVars>>

DeleteRow ==
    /\ pc = "table"
    /\ \E k \in 1..Len(edited_df) :
          edited_df' = SubSeq(edited_df, 1, k - 1) \o SubSeq(edited_df, k + 1, Len(edited_df))
    /\ UNCHANGED <<runVars, sessionVars, pc, df_columns, allowed_relationships, allowed_nodes, normVars, batchVars, readerVars>>

EditCell ==
    /\ pc = "table"
    /\ \E k \in 1..Len(edited_df), col \in Columns :
          \E v \in CellInputs(col) :
             edited_df' = [edited_df EXCEPT ![k] = [@ EXCEPT ![col] = v]]
    /\ UNCHANGED <<runVars, sessionVars, pc, df_columns, allowed_relationships, allowed_nodes, normVars, batchVars, readerVars>>

NextCuration == AddRow \/ DeleteRow \/ EditCell \/ ExtractGraph

SpecCuration == InitCuration /\ [][NextCuration]_vars

(***************************************************************************)
(* SpecReader: extract_content on every file name.                         *)
(***************************************************************************)
InitReader ==
    /\ SessionIdle
    /\ pc = "reader"
    /\ file \in FileNames
    /\ content = Unread
    /\ stream_pos = <<"start">>
    /\ NormIdle /\ TableIdle /\ BatchIdle

\* extract_content(file) on the uploaded file as the uploader hands it over
ExtractContent ==
    /\ pc = "reader"
    /\ LET reading == extract_content_at(file, stream_pos[1]) IN
       /\ content' = reading.result
       /\ stream_pos' = <<reading.pos>>
    /\ pc' = "read"
    /\ UNCHANGED <<rerunVars, extractVars, observed, sessionVars, file, normVars,
                   tableVars, batchVars>>

\* extract_content(file) once more on the same file object, as extract_graph
\* does after process_documents in one run of the script
ExtractContentAgain ==
    /\ pc = "read"
    /\ LET reading == extract_content_at(file, stream_pos[1]) IN
       /\ content' = reading.result
       /\ stream_pos' = <<reading.pos>>
    /\ pc' = "reread"
    /\ UNCHANGED <<rerunVars, extractVars, observed, sessionVars, file, normVars,
                   tableVars, batchVars>>

NextReader == ExtractContent \/ ExtractContentAgain

SpecReader == InitReader /\ [][NextReader]_vars

(***************************************************************************)
(* Spec: pass 1 over a batch: process_documents file by file, its result   *)
(* stored and shown as the table, the constraints derived from the table.  *)
(***************************************************************************)
Init ==
    /\ SessionIdle
    /\ pc = "upload"
    /\ NormIdle /\ TableIdle /\ BatchIdle /\ ReaderIdle

\* main, line 373: process_documents is called on a non-empty batch (the
\* function takes any list of files; main passes what the uploader returned)
CallProcessDocuments ==
    /\ pc = "upload"
    /\ files' \in SeqsBetween(BatchNames, 1, MaxFiles)
    /\ file_idx' = 1
    /\ all_results' = <<>>
    /\ errors' = <<>>
    /\ pc' = "processing"
    /\ UNCHANGED <<runVars, sessionVars, response, extracted_relationships, normVars, tableVars, readerVars>>

\* process_documents, lines 71-74: the file at file_idx is read and the
\* language model is asked; both calls stand before the try of line 77, so
\* what either raises leaves process_documents
InvokeLLMFrom(answers) ==
    /\ pc = "processing"
    /\ file_idx <= Len(files)
    /\ \E answer \in answers :
          LET name == files[file_idx]
              it == ProcessFile(name, answer, all_results)
          IN  /\ file' = name
              /\ content' = extract_content(name)
              /\ IF it.raised # ""
                 THEN pc' = "raised" /\ response' = NoResponse
                 ELSE pc' = "invoked" /\ response' = answer
    /\ UNCHANGED <<runVars, sessionVars, files, file_idx, all_results, errors, extracted_relationships,
                   normVars, tableVars>>

InvokeLLM == InvokeLLMFrom(Responses)

\* process_documents, lines 77-123: the try block on the answer at hand,
\* then the loop moves to the next file (the answer is consumed here: the
\* next iteration overwrites the local before anything reads it)
HandleResponse ==
    /\ pc = "invoked"
    /\ LET name == files[file_idx]
           it == ProcessFile(name, response, all_results)
       IN  /\ errors' = errors \o it.errs
           /\ all_results' = all_results \o it.lite
    /\ file_idx' = file_idx + 1
    /\ response' = NoResponse
    /\ pc' = "processing"
    /\ UNCHANGED <<runVars, sessionVars, files, extracted_relationships, normVars, tableVars, readerVars>>

\* ProcessDocumentsReturn with a fault: the result is added to what the
\* session state held
ProcessDocumentsReturn_merging ==
    /\ pc = "processing"
    /\ file_idx > Len(files)
    /\ extracted_relationships' = extracted_relationships \o all_results
    /\ relationships_extracted' = TRUE
    /\ pc' = "extracted"
    /\ UNCHANGED <<uploaded_files, reextract, pass1_ran, extractVars, stream_pos, observed,
                   sessionVars, files, file_idx, all_results, errors, response, normVars,
                   tableVars, readerVars>>

\* process_documents, line 125, and main, lines 373-374: the returned list
\* is assigned to the session state, then the flag is set
ProcessDocumentsReturn ==
    /\ pc = "processing"
    /\ file_idx > Len(files)
    /\ extracted_relationships' = all_results
    /\ relationships_extracted' = TRUE
    /\ pc' = "extracted"
    /\ UNCHANGED <<uploaded_files, reextract, pass1_ran, extractVars, stream_pos, observed,
                   sessionVars, files, file_idx, all_results, errors, response, normVars,
                   tableVars, readerVars>>

\* main, line 377: display_extraction_relationships(extracted_relationships)
DisplayExtracted ==
    /\ pc = "extracted"
    /\ edited_df' = get_dataframe(extracted_relationships)
    /\ df_columns' = DataFrameColumns(extracted_relationships)
    /\ pc' = "table"
    /\ UNCHANGED <<runVars, sessionVars, allowed_relationships, allowed_nodes, normVars, batchVars, readerVars>>

Next ==
    \/ CallProcessDocuments
    \/ InvokeLLM
    \/ HandleResponse
    \/ ProcessDocumentsReturn
    \/ DisplayExtracted
    \/ ExtractGraph

Spec == Init /\ [][Next]_vars

(***************************************************************************)
(* SpecRerun: the upload tab over the reruns of one session. Every widget  *)
(* action reruns main: the uploader and the Re-extract checkbox hand over  *)
(* their current values, and lines 358-377 decide whether pass 1 runs.     *)
(***************************************************************************)
\* the files the uploader holds on a rerun
RerunNames ==
    {JoinDots(<<(<<"a">>), ExtTxt>>), JoinDots(<<(<<"a">>), <<"P", "d", "f">>>>)}

\* what the language model answers in these runs: it raises, or it gives a
\* bare array of at most one relationship
RerunRelationships ==
    {rel \in BatchRelationships : rel.head_type = StrA /\ rel.tail = StrX}

RerunResponses ==
    [kind : {"throws"}, open : {""}, close : {""}, items : {NoItems}]
        \cup [kind : {"array"}, open : {""}, close : {""},
              items : SeqsBetween([conforms : {TRUE}, rel : RerunRelationships], 0, 1)]

InitRerun ==
    /\ SessionIdle
    /\ pc = "rerun"
    /\ NormIdle /\ TableIdle /\ BatchIdle /\ ReaderIdle

\* the script is not running: before the first run, after a run that ended
\* with the table shown, after a run that an exception ended
ScriptAtRest == pc \in {"rerun", "raised", "table"}

\* MainRerun with a fault: pass 1 also runs when the uploaded files changed
MainRerun_onchange ==
    /\ ScriptAtRest
    /\ \E fs \in SeqsBetween(RerunNames, 0, MaxFiles), box \in BOOLEAN :
          LET flag == IF fs # <<>> /\ (box \/ fs # uploaded_files)
                      THEN FALSE ELSE relationships_extracted
              runs == fs # <<>> /\ ~flag
          IN  /\ uploaded_files' = fs
              /\ reextract' = box
              /\ relationships_extracted' = flag
              /\ pass1_ran' = runs
              /\ IF runs
                 THEN /\ files' = fs
                      /\ file_idx' = 1
                      /\ all_results' = <<>>
                      /\ errors' = <<>>
                      /\ response' = NoResponse
                      /\ pc' = "processing"
                      /\ UNCHANGED extracted_relationships
                 ELSE /\ pc' = IF fs # <<>> THEN "extracted" ELSE "rerun"
                      /\ UNCHANGED batchVars
    /\ UNCHANGED <<extractVars, stream_pos, observed, sessionVars, normVars, tableVars,
                   readerVars>>

\* main from its start to line 373: the sidebar stores the checkbox (343),
\* the uploader returns its files (354); with files, a checked Re-extract
\* resets the flag (367-368), and pass 1 is entered when the flag is not
\* set (371-373: process_documents starts with all_results = [])
MainRerun ==
    /\ ScriptAtRest
    /\ \E fs \in SeqsBetween(RerunNames, 0, MaxFiles), box \in BOOLEAN :
          LET flag == IF fs # <<>> /\ box THEN FALSE ELSE relationships_extracted
              runs == fs # <<>> /\ ~flag
          IN  /\ uploaded_files' = fs
              /\ reextract' = box
              /\ relationships_extracted' = flag
              /\ pass1_ran' = runs
              /\ IF runs
                 THEN /\ files' = fs
                      /\ file_idx' = 1
                      /\ all_results' = <<>>
                      /\ errors' = <<>>
                      /\ response' = NoResponse
                      /\ pc' = "processing"
                      /\ UNCHANGED extracted_relationships
                 ELSE /\ pc' = IF fs # <<>> THEN "extracted" ELSE "rerun"
                      /\ UNCHANGED batchVars
    /\ UNCHANGED <<extractVars, stream_pos, observed, sessionVars, normVars, tableVars,
                   readerVars>>

InvokeLLMRerun == InvokeLLMFrom(RerunResponses)

NextRerun ==
    \/ MainRerun
    \/ InvokeLLMRerun
    \/ HandleResponse
    \/ ProcessDocumentsReturn
    \/ DisplayExtracted

SpecRerun == InitRerun /\ [][NextRerun]_vars

(***************************************************************************)
(* What the properties are stated with.                                    *)
(***************************************************************************)
\* the (head_type, relation, tail_type) key of a triple or of a schema edge
EdgeKey(e) == <<e.head_type, e.relation, e.tail_type>>

NoTwoWithSameKey(edges) ==
    \A i, j \in 1..Len(edges) : i # j => EdgeKey(edges[i]) # EdgeKey(edges[j])

\* the positions of a triple sequence at which a key occurs for the first time
FirstPositions(rels) ==
    {i \in 1..Len(rels) : \A j \in 1..(i - 1) : EdgeKey(rels[j]) # EdgeKey(rels[i])}

\* the n-th smallest element of a set of positions
NthOf(positions, n) ==
    CHOOSE i \in positions : Cardinality({j \in positions : j <= i}) = n

Normalized == pc \in {"normalized", "table", "derived"}

(***************************************************************************)
(* C1: the normalizer's output has no two elements with the same           *)
(* (head_type, relation, tail_type) key and is at most as long as its      *)
(* input.                                                                  *)
(***************************************************************************)
C1_DedupInvariant ==
    Normalized =>
        /\ NoTwoWithSameKey(lite_results)
        /\ Len(lite_results) <= Len(relationships)

\* a repeated key was dropped and another key kept
C1_Witness ==
    /\ pc = "normalized"
    /\ ~NoTwoWithSameKey(relationships)
    /\ Len(lite_results) = 2
    /\ Len(relationships) = 3

(***************************************************************************)
(* C2: the normalizer's output is the subsequence of the first occurrences *)
(* of each key, in input order, each with check = FALSE; a later triple    *)
(* with a key already seen changes nothing, whatever its head and tail.    *)
(***************************************************************************)
C2_FirstOccurrenceOrder ==
    Normalized =>
        LET firsts == FirstPositions(relationships) IN
        /\ Len(lite_results) = Cardinality(firsts)
        /\ \A n \in 1..Len(lite_results) :
              /\ EdgeKey(lite_results[n]) = EdgeKey(relationships[NthOf(firsts, n)])
              /\ lite_results[n].check = FALSE

\* [t1, t2, t1'] with t1 and t1' of one key and of different head text
C2_Witness ==
    /\ pc = "normalized"
    /\ Len(relationships) = 3
    /\ EdgeKey(relationships[1]) = EdgeKey(relationships[3])
    /\ relationships[1].head # relationships[3].head
    /\ EdgeKey(relationships[1]) # EdgeKey(relationships[2])
    /\ Len(lite_results) = 2
    /\ EdgeKey(lite_results[1]) = EdgeKey(relationships[1])

(***************************************************************************)
(* C3: df2json of the table built by get_dataframe from the normalizer's   *)
(* output has exactly one tuple per distinct key of the triples.           *)
(***************************************************************************)
C3_RoundTrip ==
    pc = "derived" =>
        /\ {allowed_relationships[k] : k \in 1..Len(allowed_relationships)}
              = {EdgeKey(relationships[k]) : k \in 1..Len(relationships)}
        /\ Len(allowed_relationships)
              = Cardinality({EdgeKey(relationships[k]) : k \in 1..Len(relationships)})

\* triples with a repeated key and two keys whose From and To differ
C3_Witness ==
    /\ pc = "derived"
    /\ ~NoTwoWithSameKey(relationships)
    /\ Len(allowed_relationships) = 2
    /\ \E k \in 1..2 : allowed_relationships[k][1] # allowed_relationships[k][3]

(***************************************************************************)
(* C4: the candidate schema process_documents hands to the curation store  *)
(* has no two edges with the same key, also when two files yield the key.  *)
(***************************************************************************)
C4_NoDuplicateAcrossFiles ==
    pc \in {"extracted", "table", "derived"} =>
        NoTwoWithSameKey(extracted_relationships)

(***************************************************************************)
(* C5: get_unique_entities returns exactly the strings of the From and To  *)
(* columns, each once, in lexicographic order, and the same for every      *)
(* permutation of the rows.                                                *)
(***************************************************************************)
\* the strings in the From and To columns
FromToStrings(df) ==
    {df[k].From.v : k \in {i \in 1..Len(df) : df[i].From.t = "str"}}
        \cup {df[k].To.v : k \in {i \in 1..Len(df) : df[i].To.t = "str"}}

\* the value is the list of the strings of S, strictly ascending
IsSortedListOf(value, S) ==
    /\ \A k \in 1..Len(value) : value[k].t = "str"
    /\ {value[k].v : k \in 1..Len(value)} = S
    /\ \A k \in 1..(Len(value) - 1) : StrLess(value[k].v, value[k + 1].v)

PermutedRows(df, perm) == [k \in 1..Len(df) |-> df[perm[k]]]

EntitiesAreSortedUnion(df, result) ==
    /\ result.raised = ""
    /\ IsSortedListOf(result.value, FromToStrings(df))
    /\ \A perm \in Permutations(1..Len(df)) :
          get_unique_entities(PermutedRows(df, perm)) = result

C5_SortedEntityUnion ==
    pc = "derived" => EntitiesAreSortedUnion(edited_df, allowed_nodes)

\* the same on the tables whose From and To cells are all strings: what
\* get_unique_entities does guarantee
AllFromToStr(df) == \A k \in 1..Len(df) : df[k].From.t = "str" /\ df[k].To.t = "str"

SortedEntityUnionOnStrings ==
    (pc = "derived" /\ AllFromToStr(edited_df)) =>
        EntitiesAreSortedUnion(edited_df, allowed_nodes)

(***************************************************************************)
(* C6: AllowedRelationships has no tuple from a row with an empty or       *)
(* missing cell; every other row is projected verbatim, in row order.      *)
(***************************************************************************)
CellIsEmpty(cell) == cell.t # "str" \/ cell.v = <<>>

RowHasEmptyCell(row) ==
    CellIsEmpty(row.From) \/ CellIsEmpty(row.Relationship) \/ CellIsEmpty(row.To)

RowsWithoutEmptyCell(df) == SelectSeq(df, LAMBDA row : ~RowHasEmptyCell(row))

C6_EmptyCellRowsIgnored ==
    pc = "derived" =>
        LET kept == RowsWithoutEmptyCell(edited_df) IN
        /\ Len(allowed_relationships) = Len(kept)
        /\ \A k \in 1..Len(kept) :
              allowed_relationships[k]
                  = <<kept[k].From.v, kept[k].Relationship.v, kept[k].To.v>>

(***************************************************************************)
(* C7: on an empty table df2json and get_unique_entities both return the   *)
(* empty sequence and raise nothing.                                       *)
(***************************************************************************)
C7_EmptyTable ==
    (pc = "derived" /\ Len(edited_df) = 0) =>
        /\ allowed_relationships = <<>>
        /\ allowed_nodes.raised = ""
        /\ allowed_nodes.value = <<>>

\* the constraints were derived from a table without rows
C7_Witness ==
    /\ pc = "derived"
    /\ Len(edited_df) = 0

(***************************************************************************)
(* C8: every row of the table built from the normalizer's output carries   *)
(* the check value of its schema edge.                                     *)
(***************************************************************************)
C8_CheckRoundTrips ==
    pc \in {"table", "derived"} =>
        /\ Len(edited_df) = Len(lite_results)
        /\ \A k \in 1..Len(edited_df) :
              /\ "check" \in DOMAIN edited_df[k]
              /\ edited_df[k].check = lite_results[k].check

(***************************************************************************)
(* C9: extract_content dispatches on the text after the last dot of the    *)
(* name, compared without regard to case: txt, pdf and docx are decoded by *)
(* their reader, any other extension raises and returns no text.           *)
(***************************************************************************)
\* the text after the last dot (the whole name when it has no dot)
RECURSIVE AfterLastDot(_)
AfterLastDot(name) ==
    IF name = <<>> \/ name[Len(name)] = "." THEN <<>>
    ELSE Append(AfterLastDot(SubSeq(name, 1, Len(name) - 1)), name[Len(name)])

SameIgnoringCase(a, b) ==
    /\ Len(a) = Len(b)
    /\ \A k \in 1..Len(a) : LowerChar(a[k]) = LowerChar(b[k])

ReaderFor(name) ==
    LET ext == AfterLastDot(name) IN
    IF SameIgnoringCase(ext, ExtTxt) THEN "read_txt"
    ELSE IF SameIgnoringCase(ext, ExtPdf) THEN "read_pdf"
    ELSE IF SameIgnoringCase(ext, ExtDocx) THEN "read_docx"
    ELSE "unsupported"

C9_DispatchOnExtension ==
    pc = "read" =>
        IF ReaderFor(file) = "unsupported"
        THEN content.raised = "ValueError"
        ELSE /\ content.raised = ""
             /\ content.value.by = ReaderFor(file)
             /\ content.value.of = file

\* a name with two dots and an extension not in lower case was decoded
C9_Witness ==
    /\ pc = "read"
    /\ content.raised = ""
    /\ content.value.by = "read_pdf"
    /\ AfterLastDot(file) # ExtPdf
    /\ Len(Split(file, ".")) = 3

(***************************************************************************)
(* C10: an unsupported extension is fatal for its file only:               *)
(* process_documents never ends at a file because its extension is         *)
(* unsupported, it goes on to the other files and returns their edges.     *)
(***************************************************************************)
C10_UnsupportedFileSkipped ==
    \A k \in 1..Len(files) :
        (ReaderFor(files[k]) = "unsupported" /\ pc # "upload" /\ file_idx >= k)
            => ~(pc = "raised" /\ file_idx = k)

(***************************************************************************)
(* What the properties of the answers of pass 1 are stated with.           *)
(***************************************************************************)
\* every item of the answer is a triple of the five string fields
AllConform(items) == \A k \in 1..Len(items) : items[k].conforms

\* the answer is empty, is not JSON, or is JSON of another shape than a list
\* of triples (bare or under the key relationships)
Malformed(answer) ==
    \/ answer.kind \in {"blank", "invalid", "scalar", "other_object"}
    \/ answer.open = "bare_fence"
    \/ ~AllConform(answer.items)

\* lites are the schema edges of the items: one per key, in the order of the
\* first occurrences, unchecked
IsContributionOf(lites, items) ==
    LET firsts == {i \in 1..Len(items) :
                     \A j \in 1..(i - 1) : EdgeKey(items[j].rel) # EdgeKey(items[i].rel)}
    IN  /\ Len(lites) = Cardinality(firsts)
        /\ \A n \in 1..Len(lites) :
              /\ EdgeKey(lites[n]) = EdgeKey(items[NthOf(firsts, n)].rel)
              /\ lites[n].check = FALSE

\* longer extends shorter at its end
Extends(longer, shorter) ==
    /\ Len(longer) >= Len(shorter)
    /\ SubSeq(longer, 1, Len(shorter)) = shorter

Added(longer, shorter) == SubSeq(longer, Len(shorter) + 1, Len(longer))

(***************************************************************************)
(* C11: in a batch of pass 1, handling an answer that is empty, not JSON   *)
(* or not of the expected shape adds no edge, surfaces at least one error  *)
(* for that file and moves on to the next file; handling any other answer  *)
(* appends that file's schema edges and no error; what process_documents   *)
(* returns is the list so accumulated, in file order.                      *)
(***************************************************************************)
C11_MalformedResponseSkipped ==
    [][ /\ (pc = "invoked" /\ Malformed(response)) =>
              /\ all_results' = all_results
              /\ Extends(errors', errors)
              /\ Len(errors') > Len(errors)
              /\ \A k \in (Len(errors) + 1)..Len(errors') :
                    errors'[k].file = files[file_idx]
              /\ pc' = "processing"
              /\ file_idx' = file_idx + 1
              /\ files' = files
        /\ (pc = "invoked" /\ ~Malformed(response)) =>
              /\ errors' = errors
              /\ Extends(all_results', all_results)
              /\ IsContributionOf(Added(all_results', all_results), response.items)
              /\ pc' = "processing"
              /\ file_idx' = file_idx + 1
        /\ (pc = "processing" /\ pc' = "extracted") =>
              extracted_relationships' = all_results
      ]_vars

\* a batch of two files returned: every error is about the first file, and
\* the edges of the second file are what is returned
C11_Witness ==
    /\ pc = "extracted"
    /\ Len(files) = 2
    /\ files[1] # files[2]
    /\ errors # <<>>
    /\ \A k \in 1..Len(errors) : errors[k].file = files[1]
    /\ Len(extracted_relationships) = 2

(***************************************************************************)
(* C12: whatever fails in the step of one file, the call of the language   *)
(* model included, is caught within that step, so process_documents always *)
(* returns; stated here for the batches in which every file has a          *)
(* supported extension, where only the language-model call can raise.      *)
(***************************************************************************)
C12_EveryFailureCaught ==
    (\A k \in 1..Len(files) : ReaderFor(files[k]) # "unsupported") => pc # "raised"

(***************************************************************************)
(* C13: the three encodings of one list of triples (the bare JSON array,   *)
(* the array between a leading json fence and a trailing fence, the object *)
(* with the array under the key relationships) are handled alike: what     *)
(* process_documents appends and reports depends on the triples only.      *)
(***************************************************************************)
IsBareArray(answer) ==
    answer.kind = "array" /\ answer.open = "" /\ answer.close = ""
IsFencedArray(answer) ==
    answer.kind = "array" /\ answer.open = "json_fence" /\ answer.close = "fence"
IsRelationshipsObject(answer) ==
    answer.kind = "relationships_object" /\ answer.open = "" /\ answer.close = ""

C13_EquivalentEncodings ==
    [][ (/\ pc = "invoked"
         /\ \/ IsBareArray(response)
            \/ IsFencedArray(response)
            \/ IsRelationshipsObject(response)) =>
            IF AllConform(response.items)
            THEN /\ errors' = errors
                 /\ Extends(all_results', all_results)
                 /\ IsContributionOf(Added(all_results', all_results), response.items)
            ELSE /\ all_results' = all_results
                 /\ errors' = errors \o <<StError(files[file_idx], "structure")>>
      ]_vars

\* the first file's answer was handled and gave an edge, and the second
\* file's answer is at hand as a fenced array of two triples of one key
C13_Witness ==
    /\ pc = "invoked"
    /\ file_idx = 2
    /\ Len(all_results) = 1
    /\ IsFencedArray(response)
    /\ Len(response.items) = 2
    /\ AllConform(response.items)
    /\ EdgeKey(response.items[1].rel) = EdgeKey(response.items[2].rel)

(***************************************************************************)
(* utils.py, lines 83-104: insert_graph on the Neo4j database.             *)
(*                                                                         *)
(* The database is the set of its nodes and the set of its relationships;  *)
(* a relationship is <<source, type, target>>.  A GraphDocument has nodes  *)
(* and relationships, and a relationship of it may name a node that is not *)
(* among its nodes.                                                        *)
(***************************************************************************)
MaxGraphs == 2      \* most per-file lists in one call of insert_graph

NodeIds == {"n1", "n2"}
GraphRelationships == {<<"n1", "r", "n2">>}

Endpoints(rels) == {rel[1] : rel \in rels} \cup {rel[3] : rel \in rels}

GraphDocuments == [nodes : SUBSET NodeIds, rels : SUBSET GraphRelationships]

\* what the database can hold: every relationship joins two of its nodes
StoreContents == {g \in GraphDocuments : Endpoints(g.rels) \subseteq g.nodes}

\* extract_graph, lines 150-155: one list per file, holding the one
\* GraphDocument that convert_to_graph_documents makes of the one Document
GraphLists == {<<doc>> : doc \in GraphDocuments}

\* clean_graph with a fault: DELETE r on the relationships only
clean_graph_relationships(g) == [nodes |-> g.nodes, rels |-> {}]

\* clean_graph: MATCH (n) DETACH DELETE n
clean_graph(g) == EmptyGraph

\* the import of the nodes of a list of GraphDocuments: MERGE on the node id
merge_nodes(g, docs) ==
    [nodes |-> g.nodes \cup UNION {docs[k].nodes : k \in 1..Len(docs)},
     rels |-> g.rels]

\* graphDBSession.add_graph_documents(graph, baseEntityLabel=True): the nodes
\* are merged, then per relationship its source, its target and itself
add_graph_documents(g, docs) ==
    [nodes |-> merge_nodes(g, docs).nodes
                 \cup UNION {Endpoints(docs[k].rels) : k \in 1..Len(docs)},
     rels |-> g.rels \cup UNION {docs[k].rels : k \in 1..Len(docs)}]

\* one request made on graphDBSession
WipeRequest == [op |-> "wipe", docs |-> <<>>]
MergeRequest(docs) == [op |-> "merge", docs |-> docs]

\* CreateGraphDBSession with a fault: clean_graph is called whatever
\* clear_existing is
CreateGraphDBSession_cleaning ==
    /\ pc = "load"
    /\ \E reachable \in BOOLEAN :
          IF reachable
          THEN /\ graphDBSession' = "open"
               /\ pc' = "cleaning"
          ELSE /\ graphDBSession' = "None"
               /\ pc' = "load_raised"
    /\ UNCHANGED <<runVars, store, prior_graph, graphs, clear_existing, graph_idx, store_log,
                   queryVars, normVars, tableVars, batchVars, readerVars>>

\* insert_graph, line 96: create_graphDBSession; Neo4jGraph raises when the
\* database cannot be reached, and nothing of insert_graph has run by then
CreateGraphDBSession ==
    /\ pc = "load"
    /\ \E reachable \in BOOLEAN :
          IF reachable
          THEN /\ graphDBSession' = "open"
               /\ pc' = IF clear_existing THEN "cleaning" ELSE "inserting"
          ELSE /\ graphDBSession' = "None"
               /\ pc' = "load_raised"
    /\ UNCHANGED <<runVars, store, prior_graph, graphs, clear_existing, graph_idx, store_log,
                   queryVars, normVars, tableVars, batchVars, readerVars>>

\* insert_graph, lines 97-98: clean_graph(graphDBSession); the query is made
\* and either takes effect or raises
CleanGraph ==
    /\ pc = "cleaning"
    /\ store_log' = Append(store_log, WipeRequest)
    /\ \E done \in BOOLEAN :
          IF done
          THEN store' = clean_graph(store) /\ pc' = "inserting"
          ELSE store' = store /\ pc' = "load_raised"
    /\ UNCHANGED <<runVars, prior_graph, graphs, clear_existing, graph_idx, graphDBSession,
                   queryVars, normVars, tableVars, batchVars, readerVars>>

\* AddGraphDocuments with a fault: the lists are taken from the last to the first
AddGraphDocuments_backwards ==
    /\ pc = "inserting"
    /\ graph_idx <= Len(graphs)
    /\ LET docs == graphs[Len(graphs) + 1 - graph_idx] IN
       /\ store_log' = Append(store_log, MergeRequest(docs))
       /\ \E outcome \in {"done", "raised", "raised_after_nodes"} :
             /\ store' = CASE outcome = "done" -> add_graph_documents(store, docs)
                            [] outcome = "raised" -> store
                            [] OTHER -> merge_nodes(store, docs)
             /\ IF outcome = "done"
                THEN pc' = pc /\ graph_idx' = graph_idx + 1
                ELSE pc' = "load_raised" /\ graph_idx' = graph_idx
    /\ UNCHANGED <<runVars, prior_graph, graphs, clear_existing, graphDBSession,
                   queryVars, normVars, tableVars, batchVars, readerVars>>

\* insert_graph, lines 100-102: the loop body for the list at graph_idx; the
\* call takes effect, or raises before or after its nodes are in
AddGraphDocuments ==
    /\ pc = "inserting"
    /\ graph_idx <= Len(graphs)
    /\ LET docs == graphs[graph_idx] IN
       /\ store_log' = Append(store_log, MergeRequest(docs))
       /\ \E outcome \in {"done", "raised", "raised_after_nodes"} :
             /\ store' = CASE outcome = "done" -> add_graph_documents(store, docs)
                            [] outcome = "raised" -> store
                            [] OTHER -> merge_nodes(store, docs)
             /\ IF outcome = "done"
                THEN pc' = pc /\ graph_idx' = graph_idx + 1
                ELSE pc' = "load_raised" /\ graph_idx' = graph_idx
    /\ UNCHANGED <<runVars, prior_graph, graphs, clear_existing, graphDBSession,
                   queryVars, normVars, tableVars, batchVars, readerVars>>

\* insert_graph, line 104, and main, lines 391-392
InsertGraphReturn ==
    /\ pc = "inserting"
    /\ graph_idx > Len(graphs)
    /\ pc' = "loaded"
    /\ UNCHANGED <<runVars, loadVars, queryVars, normVars, tableVars, batchVars, readerVars>>

(***************************************************************************)
(* SpecLoad: one call of insert_graph, on any database content, any lists  *)
(* of GraphDocuments and either value of clear_existing.                   *)
(***************************************************************************)
InitLoad ==
    /\ pc = "load"
    /\ store \in StoreContents
    /\ prior_graph = store
    /\ graphs \in SeqsBetween(GraphLists, 1, MaxGraphs)
    /\ clear_existing \in BOOLEAN
    /\ graph_idx = 1
    /\ store_log = <<>>
    /\ graphDBSession = "None"
    /\ QueryIdle /\ RunIdle /\ NormIdle /\ TableIdle /\ BatchIdle /\ ReaderIdle

NextLoad ==
    \/ CreateGraphDBSession
    \/ CleanGraph
    \/ AddGraphDocuments
    \/ InsertGraphReturn

SpecLoad == InitLoad /\ [][NextLoad]_vars

(***************************************************************************)
(* SpecExtract: one press of Extract Graph (app.py 380-395): extract_graph *)
(* over the uploaded files with the table on display, then insert_graph on *)
(* what it returned, then the success message and the visualization.       *)
(***************************************************************************)
\* the node type and the (source type, type, target type) of a relationship
\* in what the language model emits: n1 is a node of type A, n2 one of type B
TypeOf(node_id) == IF node_id = "n1" THEN StrA ELSE StrB
TripleOf(rel) == <<TypeOf(rel[1]), StrR, TypeOf(rel[3])>>

\* LLMGraphTransformer keeps the two lists it is constructed with
Transformer(nodes, rels) ==
    [made |-> TRUE, allowed_nodes |-> nodes, allowed_relationships |-> rels]

\* the transformer's filter on the model's output: a list that is empty
\* restricts nothing (the default of the constructor), a list that is not
\* keeps the nodes whose type is in it, the relationships between kept
\* nodes, and of these the relationships whose triple is in the tuple list
NodeAllowed(transformer, node_id) ==
    \/ transformer.allowed_nodes = <<>>
    \/ \E j \in 1..Len(transformer.allowed_nodes) :
          transformer.allowed_nodes[j] = StrCell(TypeOf(node_id))

RelationshipAllowed(transformer, rel) ==
    /\ NodeAllowed(transformer, rel[1])
    /\ NodeAllowed(transformer, rel[3])
    /\ \/ transformer.allowed_relationships = <<>>
       \/ \E k \in 1..Len(transformer.allowed_relationships) :
             transformer.allowed_relationships[k] = TripleOf(rel)

\* graph_transformer.convert_to_graph_documents([document]) when the model
\* emits raw: a list of one GraphDocument, whose source is the document
convert_to_graph_documents(transformer, document, raw) ==
    <<[nodes |-> {n \in raw.nodes : NodeAllowed(transformer, n)},
       rels |-> {rel \in raw.rels : RelationshipAllowed(transformer, rel)},
       source |-> document]>>

\* the uploaded files, the tables on display and what the model emits
ExtractNames == {JoinDots(<<(<<"a">>), ExtTxt>>), JoinDots(<<(<<"a">>), ExtDocx>>)}

TableRow(from, rel, to) == [From |-> from, Relationship |-> rel, To |-> to]

ExtractTables ==
    {<<>>,
     <<TableRow(StrCell(StrA), StrCell(StrR), StrCell(StrB))>>,
     <<TableRow(StrCell(StrA), StrCell(StrR), StrCell(StrA))>>,
     <<TableRow(NoneCell, NoneCell, NoneCell)>>,
     <<TableRow(StrCell(StrA), StrCell(StrR), StrCell(StrB)),
       TableRow(NoneCell, NoneCell, NoneCell)>>}

ExtractOutputs ==
    {EmptyGraph, [nodes |-> {"n1"}, rels |-> {}],
     [nodes |-> NodeIds, rels |-> GraphRelationships]}

\* main at line 380 with the button pressed: the files of the uploader, each
\* read by pass 1 in this run of the script (its stream is where pass 1
\* left it) or not, the table the editor returned, the two checkboxes, and
\* the database as it is
InitExtract ==
    /\ pc = "pressed"
    /\ files \in SeqsBetween(ExtractNames, 1, MaxFiles)
    /\ \E pass1 \in BOOLEAN :
          stream_pos = [k \in 1..Len(files) |->
                           IF pass1 THEN extract_content_at(files[k], "start").pos
                           ELSE "start"]
    /\ edited_df \in ExtractTables
    /\ df_columns = Columns
    /\ allowed_relationships = <<>>
    /\ allowed_nodes = NotDerived
    /\ file_idx = 0
    /\ file = <<>>
    /\ content = Unread
    /\ all_results = <<>> /\ errors = <<>> /\ response = NoResponse
    /\ extracted_relationships = <<>>
    /\ store \in {EmptyGraph, [nodes |-> {"n2"}, rels |-> {}]}
    /\ prior_graph = store
    /\ graphs = <<>>
    /\ clear_existing \in BOOLEAN
    /\ graph_idx = 0
    /\ store_log = <<>>
    /\ graphDBSession = "None"
    /\ uploaded_files = files
    /\ reextract = FALSE /\ relationships_extracted = TRUE /\ pass1_ran = FALSE
    /\ graph_transformer = NoTransformer
    /\ tab1_notice = ""
    /\ observed = NotObserved
    /\ QueryIdle /\ NormIdle

\* extract_graph, lines 129-146: graphs = [], the constraints are derived
\* once, and the transformer is constructed with them; get_unique_entities
\* may raise, and so may the constructor on an entity that is no string
MakeGraphTransformer ==
    /\ pc = "pressed"
    /\ allowed_relationships' = df2json(edited_df)
    /\ allowed_nodes' = get_unique_entities(edited_df)
    /\ graphs' = <<>>
    /\ IF allowed_nodes'.raised # ""
       THEN /\ pc' = "extract_raised"
            /\ UNCHANGED <<graph_transformer, file_idx>>
       ELSE \E accepted \in BOOLEAN :
               /\ accepted \/ \E j \in 1..Len(allowed_nodes'.value) :
                                  allowed_nodes'.value[j].t # "str"
               /\ IF accepted
                  THEN /\ graph_transformer' =
                              Transformer(allowed_nodes'.value, allowed_relationships')
                       /\ file_idx' = 1
                       /\ pc' = "converting"
                  ELSE /\ pc' = "extract_raised"
                       /\ UNCHANGED <<graph_transformer, file_idx>>
    /\ UNCHANGED <<rerunVars, tab1_notice, stream_pos, observed, store, prior_graph,
                   clear_existing, graph_idx, store_log, graphDBSession, queryVars,
                   edited_df, df_columns, normVars, files, all_results, errors, response,
                   extracted_relationships, readerVars>>

\* ConvertFile with a fault: the new list is put in front of the others
ConvertFile_prepending ==
    /\ pc = "converting"
    /\ file_idx <= Len(files)
    /\ LET reading == extract_content_at(files[file_idx], stream_pos[file_idx]) IN
       /\ file' = files[file_idx]
       /\ content' = reading.result
       /\ stream_pos' = [stream_pos EXCEPT ![file_idx] = reading.pos]
       /\ IF reading.result.raised # ""
          THEN pc' = "extract_raised" /\ UNCHANGED <<graphs, file_idx>>
          ELSE \E responds \in BOOLEAN :
                  IF responds
                  THEN /\ \E raw \in ExtractOutputs :
                             graphs' = <<convert_to_graph_documents(
                                           graph_transformer, reading.result.value, raw)>>
                                       \o graphs
                       /\ file_idx' = file_idx + 1
                       /\ pc' = pc
                  ELSE pc' = "extract_raised" /\ UNCHANGED <<graphs, file_idx>>
    /\ UNCHANGED <<rerunVars, extractVars, observed, store, prior_graph, clear_existing,
                   graph_idx, store_log, graphDBSession, queryVars, tableVars, normVars,
                   files, all_results, errors, response, extracted_relationships>>

\* extract_graph, lines 150-155, the loop body for the file at file_idx:
\* extract_content, then convert_to_graph_documents on the one Document,
\* then graphs.append(data); nothing catches what either call raises
ConvertFile ==
    /\ pc = "converting"
    /\ file_idx <= Len(files)
    /\ LET reading == extract_content_at(files[file_idx], stream_pos[file_idx]) IN
       /\ file' = files[file_idx]
       /\ content' = reading.result
       /\ stream_pos' = [stream_pos EXCEPT ![file_idx] = reading.pos]
       /\ IF reading.result.raised # ""
          THEN pc' = "extract_raised" /\ UNCHANGED <<graphs, file_idx>>
          ELSE \E responds \in BOOLEAN :
                  IF responds
                  THEN /\ \E raw \in ExtractOutputs :
                             graphs' = Append(graphs, convert_to_graph_documents(
                                           graph_transformer, reading.result.value, raw))
                       /\ file_idx' = file_idx + 1
                       /\ pc' = pc
                  ELSE pc' = "extract_raised" /\ UNCHANGED <<graphs, file_idx>>
    /\ UNCHANGED <<rerunVars, extractVars, observed, store, prior_graph, clear_existing,
                   graph_idx, store_log, graphDBSession, queryVars, tableVars, normVars,
                   files, all_results, errors, response, extracted_relationships>>

\* extract_graph, line 162, and main, lines 382-384: the list is returned,
\* stored as extracted_graphs, and insert_graph is called on it
ExtractGraphReturn ==
    /\ pc = "converting"
    /\ file_idx > Len(files)
    /\ graph_idx' = 1
    /\ pc' = "load"
    /\ UNCHANGED <<runVars, store, prior_graph, graphs, clear_existing, store_log,
                   graphDBSession, queryVars, tableVars, normVars, batchVars, readerVars>>

\* ShowInserted with a fault: the message does not wait for insert_graph
ShowInserted_regardless ==
    /\ pc \in {"load", "loaded"}
    /\ \E drawn \in BOOLEAN :
          tab1_notice' = IF drawn THEN "visualized" ELSE "success"
    /\ pc' = "shown"
    /\ UNCHANGED <<rerunVars, graph_transformer, stream_pos, observed, loadVars, queryVars,
                   tableVars, normVars, batchVars, readerVars>>

\* main, lines 391-395, after insert_graph returned: st.success, then
\* visualize_graph, which draws the graph or raises (it catches nothing)
ShowInserted ==
    /\ pc = "loaded"
    /\ \E drawn \in BOOLEAN :
          tab1_notice' = IF drawn THEN "visualized" ELSE "success"
    /\ pc' = "shown"
    /\ UNCHANGED <<rerunVars, graph_transformer, stream_pos, observed, loadVars, queryVars,
                   tableVars, normVars, batchVars, readerVars>>

NextExtract ==
    \/ MakeGraphTransformer
    \/ ConvertFile
    \/ ExtractGraphReturn
    \/ CreateGraphDBSession
    \/ CleanGraph
    \/ AddGraphDocuments
    \/ InsertGraphReturn
    \/ ShowInserted

SpecExtract == InitExtract /\ [][NextExtract]_vars

(***************************************************************************)
(* SpecShared: insert_graph in one session while another session of the    *)
(* application, connected to the same database, reads it (the              *)
(* visualization's MATCH of app.py 183-190, the query of a chain). Each    *)
(* request of insert_graph is a transaction of its own (utils.py 96-102),  *)
(* and nothing in utils.py or app.py holds a lock over them.               *)
(***************************************************************************)
SharedStore == [nodes |-> NodeIds, rels |-> GraphRelationships]

SharedLists == {<<[nodes |-> {"n1"}, rels |-> {}]>>, <<SharedStore>>}

InitShared ==
    /\ pc = "load"
    /\ store = SharedStore
    /\ prior_graph = store
    /\ graphs \in SeqsBetween(SharedLists, 1, MaxGraphs)
    /\ clear_existing \in BOOLEAN
    /\ graph_idx = 1
    /\ store_log = <<>>
    /\ graphDBSession = "None"
    /\ QueryIdle /\ RunIdle /\ NormIdle /\ TableIdle /\ BatchIdle /\ ReaderIdle

\* where insert_graph is when a request of another session is served
LoadPhase ==
    IF pc = "inserting" /\ graph_idx > Len(graphs) THEN "inserted" ELSE pc

\* a read of the other session: it is served between two requests of
\* insert_graph and sees what the database holds then
OtherSessionReads ==
    /\ observed' = [during |-> LoadPhase,
                    wiped |-> \E k \in 1..Len(store_log) : store_log[k] = WipeRequest,
                    graph |-> store]
    /\ observed' # observed
    /\ UNCHANGED <<pc, rerunVars, extractVars, stream_pos, loadVars, queryVars, normVars,
                   tableVars, batchVars, readerVars>>

NextShared ==
    \/ CreateGraphDBSession
    \/ CleanGraph
    \/ AddGraphDocuments
    \/ InsertGraphReturn
    \/ OtherSessionReads

SpecShared == InitShared /\ [][NextShared]_vars

(***************************************************************************)
(* What the properties of the loader are stated with.                      *)
(***************************************************************************)
\* the GraphDocuments of the lists handed to insert_graph
DocsOf(lists) == UNION {{lists[k][j] : j \in 1..Len(lists[k])} : k \in 1..Len(lists)}

\* the nodes and the relationships the lists name
NodesFrom(lists) == UNION {doc.nodes \cup Endpoints(doc.rels) : doc \in DocsOf(lists)}
RelsFrom(lists) == UNION {doc.rels : doc \in DocsOf(lists)}

\* the requests of a complete load: the wipe when asked for, then one merge
\* per list, in the order of the lists
ExpectedRequests ==
    (IF clear_existing THEN <<[op |-> "wipe", docs |-> <<>>]>> ELSE <<>>)
        \o [k \in 1..Len(graphs) |-> [op |-> "merge", docs |-> graphs[k]]]

Wipes(log) == {k \in 1..Len(log) : log[k].op = "wipe"}

(***************************************************************************)
(* C14: when insert_graph returns from a call with clear_existing = TRUE,  *)
(* the database holds the nodes and relationships of the GraphDocuments    *)
(* handed in and nothing else, whatever it held before.                    *)
(***************************************************************************)
C14_WipeThenOnlyDocs ==
    (pc = "loaded" /\ clear_existing) =>
        /\ store.nodes = NodesFrom(graphs)
        /\ store.rels = RelsFrom(graphs)

\* a node and a relationship of before are gone, the node of the list is in
C14_Witness ==
    /\ pc = "loaded"
    /\ clear_existing
    /\ prior_graph.rels # {}
    /\ store.rels = {}
    /\ store.nodes = {"n1"}

(***************************************************************************)
(* C15: the requests insert_graph makes are, at every moment, a beginning  *)
(* of: the wipe exactly when clear_existing, once and first, then one      *)
(* merge per list in the order of the lists; a call that returns has made  *)
(* all of them.                                                            *)
(***************************************************************************)
C15_WipeOnceThenInOrder ==
    /\ Extends(ExpectedRequests, store_log)
    /\ pc = "loaded" => store_log = ExpectedRequests
    /\ Cardinality(Wipes(store_log)) <= 1
    /\ (Wipes(store_log) # {}) => (clear_existing /\ Wipes(store_log) = {1})
    /\ (pc \in {"inserting", "loaded"} /\ clear_existing) => Wipes(store_log) = {1}

\* a returned load of two different lists after the wipe
C15_Witness ==
    /\ pc = "loaded"
    /\ clear_existing
    /\ Len(graphs) = 2
    /\ graphs[1] # graphs[2]
    /\ Len(store_log) = 3

(***************************************************************************)
(* C16: a call of insert_graph with clear_existing = FALSE makes no wipe,  *)
(* at every moment the database still holds every node and relationship it *)
(* held before, and when the call returns it holds exactly those and the   *)
(* ones of the GraphDocuments handed in.                                   *)
(***************************************************************************)
C16_AdditiveMerge ==
    (pc \in {"load", "inserting", "loaded", "load_raised"} /\ ~clear_existing) =>
        /\ Wipes(store_log) = {}
        /\ prior_graph.nodes \subseteq store.nodes
        /\ prior_graph.rels \subseteq store.rels
        /\ pc = "loaded" =>
              /\ store.nodes = prior_graph.nodes \cup NodesFrom(graphs)
              /\ store.rels = prior_graph.rels \cup RelsFrom(graphs)

\* the database held one node; the load added a relationship and its other node
C16_Witness ==
    /\ pc = "loaded"
    /\ ~clear_existing
    /\ prior_graph = [nodes |-> {"n1"}, rels |-> {}]
    /\ store.rels # {}
    /\ store.nodes = {"n1", "n2"}

(***************************************************************************)
(* app.py, lines 397-464, and utils.py, lines 118-171: the query tab.      *)
(*                                                                         *)
(* chain(...) is one blocking call of GraphCypherQAChain; its steps are    *)
(* taken here one at a time: the Cypher query is generated (Translating),  *)
(* run on the database (Executing), and the answer is written from the     *)
(* rows (Answering); the chain saves the turn to its memory when the call  *)
(* has succeeded.  An exception of any step leaves the call and is caught  *)
(* at app.py:460.                                                          *)
(***************************************************************************)
MaxTurns == 2       \* most completed turns in one conversation

Questions == {"q1", "q2"}
Answers == {"a1"}
CypherQueries == {"MATCH"}

\* graph.query(generated_cypher): the rows are read from the database
RowsOf(g, cypher) == [fetched |-> TRUE, rows |-> g.rels]

\* graph.schema: the node labels and relationship types of the database
\* (a node stands for its label)
SchemaOf(g) == [labels |-> g.nodes, types |-> {rel[2] : rel \in g.rels}]

\* what chain(...) returns with return_intermediate_steps=True: the steps
\* with the generated query and with the rows, and the final answer
ChainResult(cypher, rows, answer) ==
    [intermediate_steps |-> <<[query |-> cypher], [context |-> rows]>>,
     result |-> answer]

\* DisplayResult with a fault: the intermediate steps are not displayed
DisplayResult_answer_only(result) ==
    [queries |-> <<>>, contexts |-> <<>>, answer |-> result.result]

\* main, lines 439-451: every step with a query and every step with a
\* context is displayed, then the answer
DisplayResult(result) ==
    LET steps == result.intermediate_steps
        with_query == SelectSeq(steps, LAMBDA step : "query" \in DOMAIN step)
        with_context == SelectSeq(steps, LAMBDA step : "context" \in DOMAIN step)
    IN  [queries |-> [k \in 1..Len(with_query) |-> with_query[k].query],
         contexts |-> [k \in 1..Len(with_context) |-> with_context[k].context],
         answer |-> result.result]

\* main is not inside insert_graph
AtRest == pc \in {"session", "loaded", "load_raised"}

\* QueryInterfaceShown with a fault: the interface is shown without a graph
QueryInterfaceShown_always(g) == g # "absent"

\* main, line 412: if st.session_state.graph
QueryInterfaceShown(g) == g = "connected"

\* create_qa_chain with a fault: a new memory for every chain
create_qa_chain_fresh(mem) == [exists |-> TRUE, turns |-> <<>>]

\* create_qa_chain, lines 149-155: the memory is made once per session and
\* handed to every chain (line 168)
create_qa_chain(mem) == IF mem.exists THEN mem ELSE [exists |-> TRUE, turns |-> <<>>]

\* create_graph, lines 118-130, as called at main, lines 409-410 and 403:
\* the connection is made or the error is reported and None returned; with
\* None the else branch of line 463 reports as well
\* and Neo4jGraph reads the schema of the database when it is constructed
\* (refresh_schema() of line 405 reads it once more)
CreateGraph(done_notice) ==
    /\ \E reachable \in BOOLEAN :
          IF reachable
          THEN /\ graph' = "connected" /\ notice' = done_notice
               /\ graph_schema' = SchemaOf(store)
          ELSE /\ graph' = "None" /\ notice' = "unable_to_connect"
               /\ graph_schema' = NoSchema
    /\ shown' = NoDisplay

\* main, lines 409-410: 'graph' is not in the session state yet
OpenQueryTab ==
    /\ AtRest
    /\ graph = "absent"
    /\ CreateGraph("")
    /\ UNCHANGED <<runVars, chain_schema, pc, memory, chain_step, user_query, generated_cypher, context,
                   completed_turns, loadVars, normVars, tableVars, batchVars, readerVars>>

\* main, lines 402-406: the Refresh Schema button
RefreshSchema ==
    /\ AtRest
    /\ graph # "absent"
    /\ chain_step = "Idle"
    /\ CreateGraph("schema_refreshed")
    /\ UNCHANGED <<runVars, chain_schema, pc, memory, chain_step, user_query, generated_cypher, context,
                   completed_turns, loadVars, normVars, tableVars, batchVars, readerVars>>

\* main, lines 418-421: the Clear Conversation button
ClearConversation ==
    /\ AtRest
    /\ QueryInterfaceShown(graph)
    /\ chain_step = "Idle"
    /\ memory.exists
    /\ memory' = [exists |-> TRUE, turns |-> <<>>]
    /\ completed_turns' = <<>>
    /\ notice' = "cleared"
    /\ shown' = NoDisplay
    /\ UNCHANGED <<runVars, graph_schema, chain_schema, pc, graph, chain_step, user_query, generated_cypher, context,
                   loadVars, normVars, tableVars, batchVars, readerVars>>

\* main, lines 427-429: Submit Query without a question
SubmitEmptyQuery ==
    /\ AtRest
    /\ QueryInterfaceShown(graph)
    /\ chain_step = "Idle"
    /\ notice' = "warning"
    /\ shown' = NoDisplay
    /\ UNCHANGED <<runVars, graph_schema, chain_schema, pc, graph, memory, chain_step, user_query, generated_cypher, context,
                   completed_turns, loadVars, normVars, tableVars, batchVars, readerVars>>

\* SubmitQuery with a fault: a question is taken while a call is under way
SubmitQuery_reentrant ==
    /\ AtRest
    /\ QueryInterfaceShown(graph)
    /\ Len(memory.turns) < MaxTurns
    /\ \E question \in Questions, made \in BOOLEAN :
          /\ user_query' = question
          /\ IF made
             THEN /\ memory' = create_qa_chain(memory)
                  /\ chain_step' = "Translating"
                  /\ notice' = ""
                  /\ chain_schema' = graph_schema
             ELSE /\ memory' = memory
                  /\ chain_step' = "Idle"
                  /\ notice' = "query_error"
                  /\ chain_schema' = chain_schema
    /\ generated_cypher' = ""
    /\ context' = NoContext
    /\ shown' = NoDisplay
    /\ UNCHANGED <<runVars, graph_schema, pc, graph, completed_turns, loadVars, normVars, tableVars, batchVars,
                   readerVars>>

\* main, lines 427-437: Submit Query with a question: create_qa_chain, then
\* the call of the chain begins; the script runs one call at a time.  The
\* constructors of create_qa_chain, lines 135-146, may raise before the
\* memory is made (caught at line 460).  The chain is made from
\* st.session_state.graph (line 433) and so with the schema that object holds
SubmitQuery ==
    /\ AtRest
    /\ QueryInterfaceShown(graph)
    /\ chain_step = "Idle"
    /\ Len(memory.turns) < MaxTurns
    /\ \E question \in Questions, made \in BOOLEAN :
          /\ user_query' = question
          /\ IF made
             THEN /\ memory' = create_qa_chain(memory)
                  /\ chain_step' = "Translating"
                  /\ notice' = ""
                  /\ chain_schema' = graph_schema
             ELSE /\ memory' = memory
                  /\ chain_step' = "Idle"
                  /\ notice' = "query_error"
                  /\ chain_schema' = chain_schema
    /\ generated_cypher' = ""
    /\ context' = NoContext
    /\ shown' = NoDisplay
    /\ UNCHANGED <<runVars, graph_schema, pc, graph, completed_turns, loadVars, normVars, tableVars, batchVars,
                   readerVars>>

\* the chain, first step: the Cypher query is generated from the question
Translate ==
    /\ chain_step = "Translating"
    /\ generated_cypher' \in CypherQueries
    /\ chain_step' = "Executing"
    /\ UNCHANGED <<runVars, shown, graph_schema, chain_schema, pc, graph, memory, user_query, context, notice, completed_turns,
                   loadVars, normVars, tableVars, batchVars, readerVars>>

\* the chain, second step: the query is run on the database
Execute ==
    /\ chain_step = "Executing"
    /\ context' = RowsOf(store, generated_cypher)
    /\ chain_step' = "Answering"
    /\ UNCHANGED <<runVars, shown, graph_schema, chain_schema, pc, graph, memory, user_query, generated_cypher, notice,
                   completed_turns, loadVars, normVars, tableVars, batchVars, readerVars>>

\* the chain, last step: the answer is written, the chain saves (query,
\* result) to its memory and returns; main, lines 439-458, shows the steps,
\* the answer and the conversation
Answer ==
    /\ chain_step = "Answering"
    /\ \E result \in Answers :
          /\ memory' = [memory EXCEPT !.turns = Append(@, <<user_query, result>>)]
          /\ completed_turns' = Append(completed_turns, <<user_query, result>>)
          /\ shown' = DisplayResult(ChainResult(generated_cypher, context, result))
    /\ notice' = "answer"
    /\ chain_step' = "Idle"
    /\ UNCHANGED <<runVars, graph_schema, chain_schema, pc, graph, user_query, generated_cypher, context,
                   loadVars, normVars, tableVars, batchVars, readerVars>>

\* QueryFails with a fault: the question that failed is kept as a turn
QueryFails_recorded ==
    /\ chain_step \in {"Translating", "Executing", "Answering"}
    /\ chain_step' = "Idle"
    /\ notice' = "query_error"
    /\ memory' = [memory EXCEPT !.turns = Append(@, <<user_query, "">>)]
    /\ UNCHANGED <<runVars, shown, graph_schema, chain_schema, pc, graph, user_query, generated_cypher, context,
                   completed_turns, loadVars, normVars, tableVars, batchVars, readerVars>>

\* main, lines 460-462: a step of the chain raised; the error is shown
QueryFails ==
    /\ chain_step \in {"Translating", "Executing", "Answering"}
    /\ chain_step' = "Idle"
    /\ notice' = "query_error"
    /\ UNCHANGED <<runVars, shown, graph_schema, chain_schema, pc, graph, memory, user_query, generated_cypher, context,
                   completed_turns, loadVars, normVars, tableVars, batchVars, readerVars>>

(***************************************************************************)
(* SpecSession: one session of the app on one database: the Extract Graph  *)
(* button loads the graph of the uploaded file, the query tab connects,    *)
(* answers questions and clears the conversation.                          *)
(***************************************************************************)
\* extract_graph's result for the upload of the session: one file, whose
\* GraphDocument has both nodes and the relationship
SessionGraphs == <<<<[nodes |-> NodeIds, rels |-> GraphRelationships]>>>>

InitSession ==
    /\ pc = "session"
    /\ store \in {EmptyGraph, [nodes |-> {"n1"}, rels |-> {}]}
    /\ prior_graph = store
    /\ graphs = <<>>
    /\ clear_existing = TRUE
    /\ graph_idx = 0
    /\ store_log = <<>>
    /\ graphDBSession = "None"
    /\ QueryIdle /\ RunIdle /\ NormIdle /\ TableIdle /\ BatchIdle /\ ReaderIdle

\* main, lines 380-390, with the checkbox of line 335: Extract Graph is
\* pressed and insert_graph is called on what extract_graph returned
PressExtractGraph ==
    /\ AtRest
    /\ chain_step = "Idle"
    /\ graphs' = SessionGraphs
    /\ clear_existing' \in BOOLEAN
    /\ prior_graph' = store
    /\ graph_idx' = 1
    /\ store_log' = <<>>
    /\ graphDBSession' = "None"
    /\ pc' = "load"
    /\ UNCHANGED <<runVars, store, queryVars, normVars, tableVars, batchVars, readerVars>>

NextSession ==
    \/ PressExtractGraph
    \/ CreateGraphDBSession
    \/ CleanGraph
    \/ AddGraphDocuments
    \/ InsertGraphReturn
    \/ OpenQueryTab
    \/ RefreshSchema
    \/ ClearConversation
    \/ SubmitEmptyQuery
    \/ SubmitQuery
    \/ Translate
    \/ Execute
    \/ Answer
    \/ QueryFails

SpecSession == InitSession /\ [][NextSession]_vars

(***************************************************************************)
(* C17: without a connection nothing changes.  A call of insert_graph that *)
(* could not create its session has made no request and left the database  *)
(* as it was, and requests are only made on an open session; while the     *)
(* query tab has no graph, no question is translated, the memory stays as  *)
(* it is, and the tab reports that it cannot connect.                      *)
(***************************************************************************)
C17_NoConnectionNoChange ==
    /\ [](/\ (pc = "load_raised" /\ graphDBSession = "None") =>
                (store_log = <<>> /\ store = prior_graph)
          /\ (graph # "connected") => chain_step = "Idle"
          /\ (graph = "None") => notice = "unable_to_connect")
    /\ [][ /\ (Len(store_log') > Len(store_log) \/ store' # store) =>
                  graphDBSession = "open"
           /\ (graph # "connected") => (memory' = memory /\ chain_step' = "Idle")
         ]_vars

\* after a conversation the connection of the query tab was lost, and a load
\* asked to wipe a database that holds nodes could not connect either
C17_Witness ==
    /\ graph = "None"
    /\ memory.turns # <<>>
    /\ pc = "load_raised"
    /\ graphDBSession = "None"
    /\ clear_existing
    /\ store.nodes # {}

(***************************************************************************)
(* C18: the memory holds exactly the (question, answer) turns completed    *)
(* since the session began or the conversation was last cleared, in order; *)
(* it only ever grows by the turn just completed, and only the Clear       *)
(* Conversation button empties it, although every question gets a new      *)
(* chain.                                                                  *)
(***************************************************************************)
C18_MemoryIsCompletedTurns ==
    /\ [](memory.turns = completed_turns)
    /\ [][ \/ memory'.turns = memory.turns
           \/ /\ chain_step = "Answering"
              /\ chain_step' = "Idle"
              /\ Len(memory'.turns) = Len(memory.turns) + 1
              /\ SubSeq(memory'.turns, 1, Len(memory.turns)) = memory.turns
              /\ memory'.turns[Len(memory'.turns)][1] = user_query
           \/ /\ notice' = "cleared"
              /\ memory'.turns = <<>>
         ]_vars

\* the second question of a conversation was answered: two turns, in the
\* order asked
C18_Witness ==
    /\ chain_step = "Idle"
    /\ notice = "answer"
    /\ Len(memory.turns) = 2
    /\ memory.turns[1][1] = "q2"
    /\ memory.turns[2][1] = "q1"

(***************************************************************************)
(* C19: a call of the chain ends in one of two ways: with the answer and   *)
(* one more turn, or with the error shown and the turns of the memory as   *)
(* they were before the question (taking the question and the steps of the *)
(* call change no turn); either way the tab is ready for the next          *)
(* question.                                                               *)
(***************************************************************************)
C19_FailedQuestionLeavesMemory ==
    [][ /\ (chain_step # "Idle" /\ chain_step' = "Idle") =>
              /\ \/ (notice' = "query_error" /\ memory' = memory)
                 \/ (notice' = "answer" /\ Len(memory'.turns) = Len(memory.turns) + 1)
              /\ graph' = "connected"
              /\ pc' = pc
        /\ (chain_step' # "Idle") => memory'.turns = memory.turns
        /\ (notice' = "query_error" /\ notice # "query_error") =>
              (memory'.turns = memory.turns /\ chain_step' = "Idle")
      ]_vars

\* a question failed after its query was generated, in a conversation that
\* holds the turn of another question
C19_Witness ==
    /\ chain_step = "Idle"
    /\ notice = "query_error"
    /\ generated_cypher # ""
    /\ Len(memory.turns) = 1
    /\ memory.turns[1][1] # user_query

(***************************************************************************)
(* C20: the call of the chain goes Idle, Translating, Executing, Answering *)
(* and back to Idle, in that order, a failure leading back to Idle; it is  *)
(* Executing only with a query generated, Answering only with the rows     *)
(* fetched, and a question is only taken when Idle.                        *)
(***************************************************************************)
ChainOrder ==
    {<<"Idle", "Translating">>, <<"Translating", "Executing">>,
     <<"Executing", "Answering">>, <<"Answering", "Idle">>,
     <<"Translating", "Idle">>, <<"Executing", "Idle">>}

C20_TranslatorStateOrder ==
    /\ [](/\ chain_step \in {"Idle", "Translating", "Executing", "Answering"}
          /\ (chain_step \in {"Executing", "Answering"}) => generated_cypher # ""
          /\ (chain_step = "Answering") => context.fetched
          /\ (chain_step = "Translating") => (generated_cypher = "" /\ ~context.fetched))
    /\ [][ /\ (chain_step' # chain_step) => (<<chain_step, chain_step'>> \in ChainOrder)
           /\ (user_query' # user_query) => chain_step = "Idle"
         ]_vars

\* the second question of a conversation is about to be answered
C20_Witness ==
    /\ chain_step = "Answering"
    /\ generated_cypher # ""
    /\ context.fetched
    /\ Len(memory.turns) = 1

(***************************************************************************)
(* C21: whenever the query tab shows the answer to a question, it shows    *)
(* with it the Cypher query generated for that question and the rows that  *)
(* query returned.                                                         *)
(***************************************************************************)
C21_AnswerShownWithSteps ==
    (shown.answer # "") =>
        /\ generated_cypher # ""
        /\ shown.queries = <<generated_cypher>>
        /\ context.fetched
        /\ shown.contexts = <<context>>
        /\ memory.turns # <<>>
        /\ memory.turns[Len(memory.turns)] = <<user_query, shown.answer>>

\* an answer is on display together with one query and its rows, which are
\* the relationship a load put into the database
C21_Witness ==
    /\ shown.answer = "a1"
    /\ Len(shown.queries) = 1
    /\ Len(shown.contexts) = 1
    /\ shown.contexts[1].rows # {}

(***************************************************************************)
(* C22: a question is translated with the schema the database has when the *)
(* question is asked; stated here for the questions asked after a load of  *)
(* the same session has returned, with or without Refresh Schema.          *)
(***************************************************************************)
C22_TranslatedWithLiveSchema ==
    (chain_step = "Translating" /\ pc = "loaded") =>
        chain_schema = [labels |-> store.nodes, types |-> {rel[2] : rel \in store.rels}]

(***************************************************************************)
(* C27: reading is repeatable: a second extract_content on the same file   *)
(* object returns what the first returned, for every supported extension.  *)
(***************************************************************************)
C27_ReadingRepeatable ==
    [][ (pc = "read" /\ pc' = "reread" /\ ReaderFor(file) # "unsupported") =>
            /\ content'.raised = content.raised
            /\ content.raised = "" => content'.value = content.value
      ]_vars

(***************************************************************************)
(* C29: the constraints derived from one table are consistent: both ends   *)
(* of every tuple of allowed_relationships are elements of allowed_nodes,  *)
(* whatever the cells of the table hold.                                   *)
(***************************************************************************)
\* the Python str with these characters is an element of the list
StrIn(chars, entities) == \E j \in 1..Len(entities) : entities[j] = StrCell(chars)

C29_TupleEndsAreEntities ==
    (pc = "derived" /\ allowed_nodes.raised = "") =>
        \A k \in 1..Len(allowed_relationships) :
            /\ StrIn(allowed_relationships[k][1], allowed_nodes.value)
            /\ StrIn(allowed_relationships[k][3], allowed_nodes.value)

(***************************************************************************)
(* C23: a rerun with files and Re-extract checked discards what the        *)
(* session held and runs pass 1 again: process_documents starts from an    *)
(* empty list over the uploaded files, what it returns replaces the stored *)
(* list, and the stored list is displayed only with the flag set, that is  *)
(* after a pass 1 that returned since the flag was last reset.             *)
(***************************************************************************)
C23_ReextractReplaces ==
    /\ [](pc \in {"extracted", "table"} => relationships_extracted)
    /\ [][ (ScriptAtRest /\ uploaded_files' # <<>> /\ reextract') =>
               /\ pc' = "processing"
               /\ ~relationships_extracted'
               /\ files' = uploaded_files'
               /\ all_results' = <<>>
         ]_vars
    /\ [][ (pc = "processing" /\ pc' = "extracted") =>
               extracted_relationships' = all_results
         ]_vars

\* pass 1 has returned on a re-extract run while the table of the previous
\* content is still the one on display, and the new content differs from it
C23_Witness ==
    /\ pc = "extracted"
    /\ pass1_ran
    /\ reextract
    /\ edited_df # <<>>
    /\ extracted_relationships # <<>>
    /\ edited_df # get_dataframe(extracted_relationships)

(***************************************************************************)
(* C30: on a rerun pass 1 runs exactly when files are uploaded and the     *)
(* flag is not set or Re-extract is checked; the flag is set only by the   *)
(* return of process_documents; while the flag is set and Re-extract is    *)
(* unchecked the stored list does not change, whatever files are uploaded. *)
(***************************************************************************)
C30_Pass1RunsIff ==
    /\ [][ ScriptAtRest =>
               LET due == /\ uploaded_files' # <<>>
                          /\ (~relationships_extracted \/ reextract')
               IN  /\ pass1_ran' <=> due
                   /\ (pc' = "processing") <=> due
         ]_vars
    /\ [][ (~relationships_extracted /\ relationships_extracted') =>
               /\ pc = "processing"
               /\ file_idx > Len(files)
               /\ pc' = "extracted"
         ]_vars
    /\ [][ (relationships_extracted /\ ~reextract') =>
               extracted_relationships' = extracted_relationships
         ]_vars

\* a rerun with other files than the stored list was extracted from, the
\* flag set and Re-extract unchecked: pass 1 did not run
C30_Witness ==
    /\ pc = "extracted"
    /\ ~pass1_ran
    /\ ~reextract
    /\ relationships_extracted
    /\ uploaded_files # <<>>
    /\ uploaded_files # files
    /\ extracted_relationships # <<>>

(***************************************************************************)
(* C24: extract_graph returns one entry per file, in the order of the      *)
(* files, each made by the one transformer constructed with the            *)
(* constraints derived once from the table passed in.                      *)
(***************************************************************************)
ExtractGraphReturned == pc \in {"load", "cleaning", "inserting", "loaded", "load_raised", "shown"}

C24_OneEntryPerFile ==
    /\ [](ExtractGraphReturned =>
             /\ Len(graphs) = Len(files)
             /\ \A k \in 1..Len(files) :
                   /\ Len(graphs[k]) = 1
                   /\ graphs[k][1].source = extract_content(files[k]).value)
    /\ [](pc = "converting" \/ ExtractGraphReturned =>
             /\ allowed_relationships = df2json(edited_df)
             /\ allowed_nodes = get_unique_entities(edited_df)
             /\ graph_transformer.allowed_relationships = allowed_relationships
             /\ graph_transformer.allowed_nodes = allowed_nodes.value)
    /\ [][ pc = "converting" =>
               /\ graph_transformer' = graph_transformer
               /\ edited_df' = edited_df
               /\ files' = files
         ]_vars

\* extract_graph has returned on two files of different kinds
C24_Witness ==
    /\ pc = "load"
    /\ Len(files) = 2
    /\ files[1] # files[2]
    /\ edited_df # <<>>

(***************************************************************************)
(* C25: whatever the language model emits, the GraphDocuments returned     *)
(* hold only nodes of a type in allowed_nodes and only relationships whose *)
(* (source type, type, target type) is in allowed_relationships.           *)
(***************************************************************************)
C25_OnlyAllowedReturned ==
    ExtractGraphReturned =>
        \A k \in 1..Len(graphs) :
            /\ \A n \in graphs[k][1].nodes : StrIn(TypeOf(n), allowed_nodes.value)
            /\ \A rel \in graphs[k][1].rels :
                  \E j \in 1..Len(allowed_relationships) :
                      allowed_relationships[j] = TripleOf(rel)

(***************************************************************************)
(* C28: when pass 2 raises, Extract Graph ends before the load: no request *)
(* is made on the database, which holds what it held, and nothing is       *)
(* shown; the success message is shown only once insert_graph returned.    *)
(***************************************************************************)
C28_RaiseStopsBeforeLoad ==
    /\ [](pc = "extract_raised" =>
             /\ store = prior_graph
             /\ store_log = <<>>
             /\ graphDBSession = "None"
             /\ tab1_notice = "")
    /\ [](pc \in {"pressed", "converting", "load", "cleaning", "inserting", "load_raised"}
             => tab1_notice = "")
    /\ [][ tab1_notice' # tab1_notice => pc = "loaded" ]_vars

\* pass 2 raised on the second file, after the first was converted, with
\* Clear existing graph checked and a database that holds a node
C28_Witness ==
    /\ pc = "extract_raised"
    /\ file_idx = 2
    /\ Len(graphs) = 1
    /\ clear_existing
    /\ store # EmptyGraph

(***************************************************************************)
(* C26: the wipe and the insertions of one load do not interleave with a   *)
(* read of another session: no read is served after the wipe and before   *)
(* the last insertion of the load is done.                                 *)
(***************************************************************************)
C26_NoReadBetweenWipeAndInsertions ==
    ~(observed.wiped /\ observed.during = "inserting")

====
